---- MODULE Spec2Model ----
(***************************************************************************)
(* Model of the pedal bridge in frontend/src-tauri/src/lib.rs: the         *)
(* background HID worker spawned in run(), the polling loop poll_pedal,    *)
(* the mutex-guarded PedalConnectionState and the is_pedal_connected       *)
(* command that reads it.                                                  *)
(*                                                                         *)
(* The worker's steps are the points at which another thread or the sink   *)
(* can observe it: a lock, a store, an emit, an open, a read, a sleep.     *)
(* println!/eprintln! are taken to succeed (a write to a broken stdout     *)
(* would panic the thread). The Result of each handle.emit is chosen by    *)
(* the sink and kept in emit_ok; the code drops it.                        *)
(***************************************************************************)
EXTENDS Integers, Sequences, FiniteSets, TLC

(* ------------------------------ bounds --------------------------------- *)

\* Report bytes 0..MaxMask are delivered by the device, together with the
\* two bytes 248 (only bits 3..7 set) and 255 (all bits set).
MaxMask == 7

\* Reports carrying data that one connection session delivers at most.
MaxReports == 2

\* Threads of the host that invoke the is_pedal_connected command.
NumCallers == 1

Masks == (0..MaxMask) \cup {248, 255}

Callers == 1..NumCallers

(* ------------------------------- state --------------------------------- *)

VARIABLES
    pc,                 \* position of the worker thread in its loop
    status,             \* the bool inside PedalConnectionState
    mutex,              \* holder of the Mutex: <<>>, <<"worker">>, <<"caller", c>>
    poisoned,           \* the Mutex's poison flag
    last_state,         \* poll_pedal's last_state
    buf,                \* poll_pedal's buf[0]
    qpc,                \* position of each is_pedal_connected call
    qret,               \* value the latest call of each caller returned,
                        \* false while none has returned
    \* history of what the worker did, for stating the properties
    outcome,            \* how far the current scan cycle got
    cycleFound,         \* "pedal-found" was emitted in the current cycle
    everOpened,         \* some open_device call has succeeded
    lastLifecycle,      \* the latest lifecycle event emitted
    discCount,          \* "pedal-disconnected" events since the latest open
    lastRead,           \* result of the latest read_timeout of the session
    reports,            \* first bytes of the data reports read in the session
    log,                \* "pedal-action" events emitted in the session
                        \* (both are emptied when the session is over)
    prev_session_state, \* last_state when the previous session ended, kept
                        \* until the next session has read its first report
    emit_ok,            \* whether the latest handle.emit returned Ok
    sleeps              \* backoff sleeps since the latest enumeration

vars == <<pc, status, mutex, poisoned, last_state, buf, qpc, qret,
          outcome, cycleFound, everOpened, lastLifecycle, discCount, lastRead,
          reports, log, prev_session_state, emit_ok, sleeps>>

workerVars == <<pc, status, last_state, buf>>
callerVars == <<qpc, qret>>
sessionHist == <<lastRead, reports, log, prev_session_state>>
cycleHist == <<outcome, cycleFound, everOpened, lastLifecycle, discCount>>

Free == <<>>
WorkerHolds == <<"worker">>
CallerHolds(c) == <<"caller", c>>

(* --------------------------- bit arithmetic ---------------------------- *)

\* a & b on u8 values
RECURSIVE BitAnd(_, _)
BitAnd(a, b) ==
    IF a = 0 \/ b = 0 THEN 0
    ELSE (a % 2) * (b % 2) + 2 * BitAnd(a \div 2, b \div 2)

\* let current_state = buf[0];
current_state == buf

Init ==
    /\ pc = "scan"
    /\ status = FALSE
    /\ mutex = Free
    /\ poisoned = FALSE
    /\ last_state = 0
    /\ buf = 0
    /\ qpc = [c \in Callers |-> "idle"]
    /\ qret = [c \in Callers |-> FALSE]
    /\ outcome = "none"
    /\ cycleFound = FALSE
    /\ everOpened = FALSE
    /\ lastLifecycle = "none"
    /\ discCount = 0
    /\ lastRead = "none"
    /\ reports = <<>>
    /\ log = <<>>
    /\ prev_session_state = 0
    /\ emit_ok = TRUE
    /\ sleeps = 0

(* ------------------------- the worker thread --------------------------- *)

\* the scan as it would be with HidApi::new() unwrapped
Scan_EnumErrFatal ==
    /\ pc = "scan"
    /\ \E r \in {"enumErr", "noMatch", "matched"} :
         /\ outcome' = r
         /\ pc' = CASE r = "matched" -> "lockT"
                   [] r = "noMatch" -> "sleep"
                   [] OTHER -> "panicked"
    /\ cycleFound' = FALSE
    /\ sleeps' = 0
    /\ UNCHANGED <<status, mutex, poisoned, emit_ok, last_state, buf, callerVars,
                   everOpened, lastLifecycle, discCount, sessionHist>>

\* hidapi::HidApi::new() and api.device_list().find(..)
Scan ==
    /\ pc = "scan"
    /\ \E r \in {"enumErr", "noMatch", "matched"} :
         /\ outcome' = r
         /\ pc' = IF r = "matched" THEN "lockT" ELSE "sleep"
    /\ cycleFound' = FALSE
    /\ sleeps' = 0
    /\ UNCHANGED <<status, mutex, poisoned, emit_ok, last_state, buf, callerVars,
                   everOpened, lastLifecycle, discCount, sessionHist>>

\* state_clone.lock().unwrap()
LockAt(here, next) ==
    /\ pc = here
    /\ mutex = Free
    /\ IF poisoned
         THEN pc' = "panicked" /\ UNCHANGED mutex
         ELSE pc' = next /\ mutex' = WorkerHolds
    /\ UNCHANGED <<status, poisoned, emit_ok, sleeps, last_state, buf, callerVars,
                   cycleHist, sessionHist>>

\* the store as it would be with the guard kept in a variable of the loop body
WriteAt_KeepsGuard(here, value, next) ==
    /\ pc = here
    /\ mutex = WorkerHolds
    /\ status' = value
    /\ pc' = next
    /\ UNCHANGED <<mutex, poisoned, emit_ok, sleeps, last_state, buf, callerVars,
                   cycleHist, sessionHist>>

\* *guard = value; the guard is dropped at the end of the statement
WriteAt(here, value, next) ==
    /\ pc = here
    /\ mutex = WorkerHolds
    /\ status' = value
    /\ mutex' = Free
    /\ pc' = next
    /\ UNCHANGED <<poisoned, emit_ok, sleeps, last_state, buf, callerVars, cycleHist, sessionHist>>

LockConnected == LockAt("lockT", "writeT")

\* the worker as it would be with the store of true left out
WriteConnected_Stale == WriteAt("writeT", status, "emitFound")

WriteConnected == WriteAt("writeT", TRUE, "emitFound")

\* the emit as it would be with its Result unwrapped
EmitThen_Unwrapped(next) ==
    \E ok \in BOOLEAN :
        /\ emit_ok' = ok
        /\ pc' = IF ok THEN next ELSE "panicked"

\* let _ = handle.emit(..): the sink returns Ok or Err, the Result is
\* dropped and the worker goes on with the next statement
EmitThen(next) ==
    \E ok \in BOOLEAN :
        /\ emit_ok' = ok
        /\ pc' = next

\* the worker as it would be without the emit of "pedal-found"
EmitFound_Missing ==
    /\ pc = "emitFound"
    /\ pc' = "open"
    /\ UNCHANGED <<status, mutex, poisoned, emit_ok, sleeps, last_state, buf,
                   callerVars, cycleHist, sessionHist>>

\* let _ = handle.emit("pedal-found", true);
EmitFound ==
    /\ pc = "emitFound"
    /\ lastLifecycle' = "found"
    /\ cycleFound' = TRUE
    /\ EmitThen("open")
    /\ UNCHANGED <<status, mutex, poisoned, sleeps, last_state, buf, callerVars,
                   outcome, everOpened, discCount, sessionHist>>

\* poll_pedal as it would be with last_state and buf kept across calls
PollPedalEntry_KeepState ==
    /\ last_state' = last_state
    /\ buf' = buf

\* let mut last_state = 0u8; let mut buf = [0u8; 8];
PollPedalEntry ==
    /\ last_state' = 0
    /\ buf' = 0

\* the open as it would be if a failed open went on to the next scan at once
OpenDevice_RetriesAtOnce ==
    /\ pc = "open"
    /\ \/ /\ pc' = "read"
          /\ PollPedalEntry
          /\ outcome' = "opened"
          /\ everOpened' = TRUE
          /\ discCount' = 0
          /\ lastRead' = "none"
          /\ reports' = <<>>
          /\ log' = <<>>
          /\ UNCHANGED prev_session_state
       \/ /\ pc' = "scan"
          /\ outcome' = "openFail"
          /\ UNCHANGED <<last_state, buf, everOpened, discCount, sessionHist>>
    /\ UNCHANGED <<status, mutex, poisoned, emit_ok, sleeps, callerVars, cycleFound,
                   lastLifecycle>>

\* device_info.open_device(&api), and on Ok the call of poll_pedal
OpenDevice ==
    /\ pc = "open"
    /\ \/ /\ pc' = "read"
          /\ PollPedalEntry
          /\ outcome' = "opened"
          /\ everOpened' = TRUE
          /\ discCount' = 0
          /\ lastRead' = "none"
          /\ reports' = <<>>
          /\ log' = <<>>
          /\ UNCHANGED prev_session_state
       \/ /\ pc' = "sleep"
          /\ outcome' = "openFail"
          /\ UNCHANGED <<last_state, buf, everOpened, discCount, sessionHist>>
    /\ UNCHANGED <<status, mutex, poisoned, emit_ok, sleeps, callerVars, cycleFound, lastLifecycle>>

\* if current_state != last_state { .. }
AfterRead(cur) == IF cur # last_state THEN "emitL" ELSE "read"

\* device.read_timeout(&mut buf, 100) returns Ok(n), n > 0
ReadData ==
    /\ pc = "read"
    /\ Len(reports) < MaxReports
    /\ \E m \in Masks :
         /\ buf' = m
         /\ reports' = Append(reports, m)
         /\ pc' = AfterRead(m)
    /\ lastRead' = "data"
    /\ prev_session_state' = IF reports = << >> THEN prev_session_state ELSE 0
    /\ UNCHANGED <<status, mutex, poisoned, emit_ok, sleeps, last_state, callerVars, cycleHist, log>>

\* the read as it would be with buf declared inside the loop
ReadTimeout_ClearedBuf ==
    /\ pc = "read"
    /\ buf' = 0
    /\ pc' = AfterRead(0)
    /\ lastRead' = "timeout"
    /\ UNCHANGED <<status, mutex, poisoned, emit_ok, sleeps, last_state, callerVars,
                   cycleHist, reports, log, prev_session_state>>

\* device.read_timeout(&mut buf, 100) returns Ok(0): buf is not written
ReadTimeout ==
    /\ pc = "read"
    /\ pc' = AfterRead(current_state)
    /\ lastRead' = "timeout"
    /\ UNCHANGED <<status, mutex, poisoned, emit_ok, sleeps, last_state, buf, callerVars,
                   cycleHist, reports, log, prev_session_state>>

\* the read as it would be with the result unwrapped
ReadError_Panics ==
    /\ pc = "read"
    /\ pc' = "panicked"
    /\ lastRead' = "err"
    /\ outcome' = "readErr"
    /\ reports' = << >>
    /\ log' = << >>
    /\ UNCHANGED <<status, mutex, poisoned, emit_ok, sleeps, last_state, buf, callerVars,
                   cycleFound, everOpened, lastLifecycle, discCount,
                   prev_session_state>>

\* device.read_timeout(&mut buf, 100) returns Err(e): break
ReadError ==
    /\ pc = "read"
    /\ pc' = "lockF"
    /\ lastRead' = "err"
    /\ outcome' = "readErr"
    /\ prev_session_state' = last_state
    /\ reports' = << >>
    /\ log' = << >>
    /\ UNCHANGED <<status, mutex, poisoned, emit_ok, sleeps, last_state, buf, callerVars,
                   cycleFound, everOpened, lastLifecycle, discCount>>

PressedName == <<"left-pressed", "center-pressed", "right-pressed">>
ReleasedName == <<"left-released", "center-released", "right-released">>

\* the test as it would be without the masks
BitChanged_WholeByte(bit) == current_state # last_state

\* (current_state & bit) != (last_state & bit)
BitChanged(bit) == BitAnd(current_state, bit) # BitAnd(last_state, bit)

\* the choice as it would be if it looked at the old mask
EventFor_OldMask(k, bit) ==
    IF BitAnd(last_state, bit) > 0 THEN PressedName[k] ELSE ReleasedName[k]

\* if (current_state & bit) > 0 { "..-pressed" } else { "..-released" }
EventFor(k, bit) ==
    IF BitAnd(current_state, bit) > 0 THEN PressedName[k] ELSE ReleasedName[k]

\* the emit as it would be if a later event overtook the earlier ones
EmitAction_Overtakes(k, bit, next) ==
    IF BitChanged(bit)
      THEN /\ log' = <<[rep |-> Len(reports), ev |-> EventFor(k, bit)]>> \o log
           /\ EmitThen(next)
      ELSE /\ UNCHANGED <<log, emit_ok>>
           /\ pc' = next

\* if (current_state & bit) != (last_state & bit) {
\*     let _ = handle.emit("pedal-action", event); }
EmitAction(k, bit, next) ==
    IF BitChanged(bit)
      THEN /\ log' = Append(log, [rep |-> Len(reports), ev |-> EventFor(k, bit)])
           /\ EmitThen(next)
      ELSE /\ UNCHANGED <<log, emit_ok>>
           /\ pc' = next

EmitLeft ==
    /\ pc = "emitL"
    /\ EmitAction(1, 1, "emitC")
    /\ UNCHANGED <<status, mutex, poisoned, sleeps, last_state, buf, callerVars,
                   cycleHist, lastRead, reports, prev_session_state>>

EmitCenter ==
    /\ pc = "emitC"
    /\ EmitAction(2, 2, "emitR")
    /\ UNCHANGED <<status, mutex, poisoned, sleeps, last_state, buf, callerVars,
                   cycleHist, lastRead, reports, prev_session_state>>

\* the loop as it would be without the assignment to last_state
UpdateLastState_Forgotten == last_state' = last_state

\* last_state = current_state;
UpdateLastState == last_state' = current_state

EmitRight ==
    /\ pc = "emitR"
    /\ EmitAction(3, 4, "read")
    /\ UpdateLastState
    /\ UNCHANGED <<status, mutex, poisoned, sleeps, buf, callerVars,
                   cycleHist, lastRead, reports, prev_session_state>>

LockDisconnected == LockAt("lockF", "writeF")

\* the worker as it would be with the store of false left out
WriteDisconnected_Stale == WriteAt("writeF", status, "emitDisc")

WriteDisconnected == WriteAt("writeF", FALSE, "emitDisc")

\* let _ = handle.emit("pedal-disconnected", true);
EmitDisconnected ==
    /\ pc = "emitDisc"
    /\ lastLifecycle' = "disconnected"
    /\ discCount' = discCount + 1
    /\ EmitThen("sleep")
    /\ UNCHANGED <<status, mutex, poisoned, sleeps, last_state, buf, callerVars,
                   outcome, cycleFound, everOpened, sessionHist>>

\* thread::sleep(Duration::from_secs(5));
Sleep ==
    /\ pc = "sleep"
    /\ pc' = "scan"
    /\ sleeps' = sleeps + 1
    /\ UNCHANGED <<status, mutex, poisoned, emit_ok, last_state, buf, callerVars,
                   cycleHist, sessionHist>>

Worker ==
    \/ Scan
    \/ LockConnected
    \/ WriteConnected
    \/ EmitFound
    \/ OpenDevice
    \/ ReadData
    \/ ReadTimeout
    \/ ReadError
    \/ EmitLeft
    \/ EmitCenter
    \/ EmitRight
    \/ LockDisconnected
    \/ WriteDisconnected
    \/ EmitDisconnected
    \/ Sleep

(* ---------------------- is_pedal_connected calls ----------------------- *)

\* state.0.lock().unwrap()
QueryLock(c) ==
    /\ qpc[c] = "idle"
    /\ mutex = Free
    /\ IF poisoned
         THEN qpc' = [qpc EXCEPT ![c] = "panicked"] /\ UNCHANGED mutex
         ELSE qpc' = [qpc EXCEPT ![c] = "locked"] /\ mutex' = CallerHolds(c)
    /\ UNCHANGED <<workerVars, poisoned, emit_ok, sleeps, qret, cycleHist, sessionHist>>

\* the dereference of the guard, the drop of the guard and the return
QueryRead(c) ==
    /\ qpc[c] = "locked"
    /\ mutex = CallerHolds(c)
    /\ qret' = [qret EXCEPT ![c] = status]
    /\ mutex' = Free
    /\ qpc' = [qpc EXCEPT ![c] = "idle"]
    /\ UNCHANGED <<workerVars, poisoned, emit_ok, sleeps, cycleHist, sessionHist>>

Query == \E c \in Callers : QueryLock(c) \/ QueryRead(c)

Next == Worker \/ Query

Spec == Init /\ [][Next]_vars

\* The worker thread is scheduled whenever it can run, it obtains the mutex
\* when the mutex is free again and again, and a call that holds the mutex
\* goes on to release it.
FairSpec ==
    /\ Spec
    /\ SF_vars(Worker)
    /\ \A c \in Callers : WF_vars(QueryRead(c))

TypeOK ==
    /\ pc \in {"scan", "lockT", "writeT", "emitFound", "open", "read", "emitL",
               "emitC", "emitR", "lockF", "writeF", "emitDisc", "sleep", "panicked"}
    /\ status \in BOOLEAN
    /\ emit_ok \in BOOLEAN
    /\ sleeps \in 0..1
    /\ last_state \in 0..255
    /\ buf \in 0..255

(* ------------------------ what a session should emit ------------------- *)

EmitPcs == {"emitL", "emitC", "emitR"}

\* bit k (0 = left, 1 = center, 2 = right) of a mask
BitOf(m, k) == (m \div (2 ^ k)) % 2

\* the mask the decoder holds when report i of the session arrives
PrevMask(i) == IF i = 1 THEN 0 ELSE reports[i - 1]

\* the events of the switches whose bit differs between p and c, in the
\* order left, center, right
ExpectedEvents(p, c) ==
    LET one(k) == IF BitOf(p, k - 1) # BitOf(c, k - 1)
                    THEN << IF BitOf(c, k - 1) = 1 THEN PressedName[k]
                                                   ELSE ReleasedName[k] >>
                    ELSE << >>
    IN  one(1) \o one(2) \o one(3)

RECURSIVE ExpectedUpTo(_)
ExpectedUpTo(i) ==
    IF i = 0 THEN << >>
    ELSE ExpectedUpTo(i - 1) \o ExpectedEvents(PrevMask(i), reports[i])

\* the names of the events emitted so far in the session
Emitted == [j \in 1..Len(log) |-> log[j].ev]

\* how many events named n were emitted while report i was processed
CountOf(i, n) == Cardinality({j \in 1..Len(log) : log[j].rep = i /\ log[j].ev = n})

Failures == {"enumErr", "noMatch", "openFail", "readErr"}

(* ------------------------------ properties ----------------------------- *)

\* C1: a scan cycle in which no device matched, or in which the open of the
\* matched device failed, ends with the status false and without a
\* "pedal-found" event emitted in it.
FailedCycleStaysDisconnected ==
    (pc = "sleep" /\ outcome \in {"noMatch", "openFail"})
        => (status = FALSE /\ ~cycleFound)

\* C2: every is_pedal_connected call that returns before the first
\* successful open_device returns false.
QueryFalseBeforeFirstOpen ==
    \A c \in Callers : ~everOpened => (qret[c] = FALSE)

\* C3: the status is true when "pedal-found" is emitted and false when
\* "pedal-disconnected" is emitted, and a call that reads the status after a
\* "pedal-found" and before the next read error returns true.
StatusSetBeforeNotification ==
    [][ /\ EmitFound => status
        /\ EmitDisconnected => ~status
        /\ \A c \in Callers :
             (QueryRead(c) /\ lastLifecycle = "found"
                           /\ pc \notin {"lockF", "writeF", "emitDisc"})
                 => qret'[c] = TRUE ]_vars

StatusSetBeforeNotificationWitness ==
    /\ pc = "read"
    /\ lastLifecycle = "found"
    /\ discCount = 0
    /\ prev_session_state # 0
    /\ Len(reports) = 1
    /\ \E c \in Callers : qret[c]

\* C4: a read error leaves the read loop; the worker then reaches the
\* backoff sleep with the status false and exactly one "pedal-disconnected"
\* emitted for the session, and it scans again only from the sleep.
ReadErrorDisconnects ==
    /\ [][ReadError => pc' = "lockF"]_vars
    /\ [](discCount <= 1)
    /\ []((outcome = "readErr" /\ pc = "sleep") => (~status /\ discCount = 1))
    /\ (pc = "lockF") ~> (outcome = "readErr" /\ pc = "sleep")
    /\ [][(outcome = "readErr" /\ pc # "scan" /\ pc' = "scan") => pc = "sleep"]_vars

ReadErrorDisconnectsWitness ==
    /\ outcome = "readErr"
    /\ pc = "sleep"
    /\ ~status
    /\ discCount = 1
    /\ lastLifecycle = "disconnected"

\* C5: a read that times out emits no event, changes neither the status nor
\* last_state, and the loop goes on to the next read.
TimeoutIsNoOp ==
    [][ReadTimeout => (pc' = "read" /\ UNCHANGED <<status, last_state, log>>)]_vars

TimeoutIsNoOpWitness ==
    /\ pc = "read"
    /\ lastRead = "timeout"
    /\ Len(reports) >= 1
    /\ last_state # 0
    /\ Len(log) >= 1

\* C6: for every report, with the previous mask p and the report's mask c,
\* each switch whose bit differs between p and c has exactly one event, the
\* Pressed one if its bit is set in c and the Released one otherwise, and a
\* switch whose bit is equal has none.
OneEventPerChangedBit ==
    pc \notin EmitPcs =>
        \A i \in 1..Len(reports) : \A k \in 1..3 :
            LET was == BitOf(PrevMask(i), k - 1)
                now == BitOf(reports[i], k - 1)
            IN  /\ CountOf(i, PressedName[k]) = IF was = 0 /\ now = 1 THEN 1 ELSE 0
                /\ CountOf(i, ReleasedName[k]) = IF was = 1 /\ now = 0 THEN 1 ELSE 0

OneEventPerChangedBitWitness ==
    /\ pc = "read"
    /\ Len(reports) = 2
    /\ reports[1] = 5
    /\ reports[2] = 3
    /\ Len(log) = 4

\* C7: the events emitted in a session are, in order, the events of its
\* reports in arrival order, those of one report in the order left, center,
\* right; while a report is being processed they are a prefix of that.
EventsInReportOrder ==
    LET want == ExpectedUpTo(Len(reports))
    IN  /\ Len(Emitted) <= Len(want)
        /\ Emitted = SubSeq(want, 1, Len(Emitted))
        /\ pc \notin EmitPcs => Emitted = want
        /\ \A j \in 1..(Len(log) - 1) : log[j].rep <= log[j + 1].rep

EventsInReportOrderWitness ==
    /\ pc = "read"
    /\ Len(reports) = 2
    /\ reports[1] = 1
    /\ reports[2] = 7
    /\ Emitted = <<"left-pressed", "center-pressed", "right-pressed">>

\* C8: a report whose mask equals the decoder state emits no event and
\* leaves the decoder state as it is: the decoder state is the mask of the
\* latest report, also when that report arrived twice.
RepeatedReportIsSilent ==
    pc \notin EmitPcs =>
        /\ \A i \in 1..Len(reports) :
              reports[i] = PrevMask(i) => \A j \in 1..Len(log) : log[j].rep # i
        /\ pc = "read" =>
              last_state = IF reports = << >> THEN 0 ELSE reports[Len(reports)]

RepeatedReportIsSilentWitness ==
    /\ pc = "read"
    /\ Len(reports) = 2
    /\ reports[1] = reports[2]
    /\ reports[1] = 6
    /\ Len(log) = 2

\* C9: a session starts with last_state zero whatever it was when the
\* previous session ended, so the first report of a session emits the
\* Pressed event of every switch whose bit is set in it.
SessionStartsFromZero ==
    /\ (pc = "read" /\ lastRead = "none") => last_state = 0
    /\ (pc \notin EmitPcs /\ Len(reports) >= 1) =>
          \A k \in 1..3 :
              BitOf(reports[1], k - 1) = 1 => CountOf(1, PressedName[k]) = 1

SessionStartsFromZeroWitness ==
    /\ pc = "read"
    /\ Len(reports) = 1
    /\ prev_session_state = 5
    /\ reports[1] = 5
    /\ Emitted = <<"left-pressed", "right-pressed">>

Low3(m) == m % 8

RECURSIVE ExpectedLowUpTo(_)
ExpectedLowUpTo(i) ==
    IF i = 0 THEN << >>
    ELSE ExpectedLowUpTo(i - 1) \o
         ExpectedEvents(Low3(PrevMask(i)), Low3(reports[i]))

\* the events of switch k emitted so far in the session
EventsOfSwitch(k) ==
    SelectSeq(Emitted, LAMBDA n : n \in {PressedName[k], ReleasedName[k]})

\* the mask of the report read most recently in the session
LatestMask == IF reports = << >> THEN 0 ELSE reports[Len(reports)]

\* the position after each of the three tests of a report
NextOfEmit == [emitL |-> "emitC", emitC |-> "emitR", emitR |-> "read"]
BitIndexOfEmit == [emitL |-> 0, emitC |-> 1, emitR |-> 2]

\* C11: what the worker does at an emit does not depend on the Result the
\* sink returns: its next position, the status, last_state and the events
\* it publishes are fixed by the state before the emit, and the events of a
\* session are complete whichever deliveries failed.
DeliveryFailureIgnored ==
    /\ [][ /\ EmitFound => (pc' = "open" /\ UNCHANGED <<status, last_state, log>>)
           /\ EmitDisconnected =>
                 (pc' = "sleep" /\ UNCHANGED <<status, last_state, log>>)
           /\ (EmitLeft \/ EmitCenter \/ EmitRight) =>
                 /\ pc' = NextOfEmit[pc]
                 /\ status' = status
                 /\ last_state' = IF pc = "emitR" THEN buf ELSE last_state
                 /\ Len(log') = Len(log) +
                       IF BitOf(buf, BitIndexOfEmit[pc]) #
                          BitOf(last_state, BitIndexOfEmit[pc]) THEN 1 ELSE 0
         ]_vars
    /\ [](pc \notin EmitPcs => Emitted = ExpectedUpTo(Len(reports)))

DeliveryFailureIgnoredWitness ==
    /\ pc = "emitC"
    /\ ~emit_ok
    /\ Len(log) = 1
    /\ log[1].rep = 1
    /\ buf = 7

\* C12: a scan whose enumeration fails changes neither the status nor what
\* has been published, goes to the backoff sleep, and from there to the
\* next scan.
EnumerationErrorRetries ==
    /\ [][(Scan /\ outcome' = "enumErr") =>
             (pc' = "sleep" /\ UNCHANGED <<status, lastLifecycle, discCount, log>>)]_vars
    /\ [][outcome' = "enumErr" => status' = status]_vars
    /\ [](outcome = "enumErr" => (pc \in {"sleep", "scan"} /\ ~cycleFound))
    /\ (outcome = "enumErr" /\ pc = "sleep") ~> (pc = "scan")

EnumerationErrorRetriesWitness ==
    /\ outcome = "enumErr"
    /\ pc = "scan"
    /\ sleeps = 1
    /\ discCount = 1
    /\ ~status

\* C13: in a session the switches whose latest event is a Pressed one are
\* the switches whose bit is set in the latest report, and the events of
\* each switch alternate Pressed, Released, starting with Pressed.
NoLostOrDuplicatedTransition ==
    \A k \in 1..3 :
        LET evs == EventsOfSwitch(k)
        IN  /\ \A j \in 1..Len(evs) :
                  evs[j] = IF j % 2 = 1 THEN PressedName[k] ELSE ReleasedName[k]
            /\ pc \notin EmitPcs =>
                  ((Len(evs) % 2 = 1) <=> (BitOf(LatestMask, k - 1) = 1))

NoLostOrDuplicatedTransitionWitness ==
    /\ pc = "read"
    /\ lastRead = "timeout"
    /\ reports = <<3, 5>>
    /\ Emitted = <<"left-pressed", "center-pressed", "center-released", "right-pressed">>

\* C14: the events of a session are those of its reports with bits 3..7
\* cleared, and a report that differs from the one before only in bits 3..7
\* emits none.
HighBitsIgnored ==
    pc \notin EmitPcs =>
        /\ Emitted = ExpectedLowUpTo(Len(reports))
        /\ \A i \in 1..Len(reports) :
              Low3(reports[i]) = Low3(PrevMask(i)) =>
                  \A j \in 1..Len(log) : log[j].rep # i

HighBitsIgnoredWitness ==
    /\ pc = "read"
    /\ reports = <<7, 255>>
    /\ last_state = 255
    /\ Len(log) = 3

\* C15: every enumeration but the first is preceded by exactly one backoff
\* sleep since the enumeration before it.
OneSleepBetweenScans ==
    /\ [][Scan => (sleeps = 1 \/ outcome = "none")]_vars
    /\ [](sleeps <= 1)
    /\ [](outcome = "none" => (pc = "scan" /\ sleeps = 0))

OneSleepBetweenScansWitness ==
    /\ pc = "sleep"
    /\ outcome = "noMatch"
    /\ sleeps = 0
    /\ discCount = 1
    /\ lastLifecycle = "disconnected"

\* C16: the worker holds the mutex only between a lock and the store that
\* follows it, a caller only between its lock and its read; the mutex is
\* taken only when it is free; the worker's step after its lock releases
\* it, and a call that holds the mutex returns.
MutexHeldBriefly ==
    /\ [](mutex = WorkerHolds => pc \in {"writeT", "writeF"})
    /\ [](\A c \in Callers : (mutex = CallerHolds(c)) <=> (qpc[c] = "locked"))
    /\ [][mutex' # mutex => (mutex = Free \/ mutex' = Free)]_vars
    /\ [][(mutex = WorkerHolds /\ Worker) => mutex' = Free]_vars
    /\ \A c \in Callers : (qpc[c] = "locked") ~> (qpc[c] = "idle")

MutexHeldBrieflyWitness ==
    /\ pc = "lockF"
    /\ status
    /\ \E c \in Callers : mutex = CallerHolds(c)

\* C17: "pedal-found" and "pedal-disconnected" alternate, beginning with
\* "pedal-found".
LifecycleAlternates ==
    [][ /\ EmitFound => lastLifecycle # "found"
        /\ EmitDisconnected => lastLifecycle = "found" ]_vars

\* C18: a "pedal-action" event is emitted only while the status is true,
\* after the "pedal-found" of the cycle whose open succeeded and before any
\* "pedal-disconnected" that follows it.
ActionsOnlyInSession ==
    [][Len(log') > Len(log) =>
          /\ status
          /\ outcome = "opened"
          /\ cycleFound
          /\ lastLifecycle = "found"
          /\ discCount = 0 ]_vars

ActionsOnlyInSessionWitness ==
    /\ pc = "emitC"
    /\ prev_session_state # 0
    /\ Len(reports) = 1
    /\ Len(log) = 1
    /\ status

====
